---- MODULE Spec2Model ----
(***************************************************************************)
(* Model of the KNUE meal API (src/app.py): the two query endpoints        *)
(* /meals-a and /meals-b, the page parsers behind them and the text and    *)
(* node helpers they are built from.                                       *)
(*                                                                         *)
(* Text is a sequence of symbols.  A symbol is one character ("1", ":",    *)
(* " ", "\n") or one atomic word written in ASCII: "nbsp" is U+00A0, and   *)
(* the Korean words of the source are romanised ("josik", "jungsik",       *)
(* "seoksik", "achim", "jeomsim", "jeonyeok", "gyojigwon", "sikdang").     *)
(* None and the empty string are both the empty sequence: every test the   *)
(* source makes on them is a truthiness test.                              *)
(***************************************************************************)
EXTENDS Integers, Sequences, FiniteSets, TLC

VARIABLES
    td,        \* SpecText: the element handed to the two text assemblers
    tdLines,   \* SpecText: result of extract_td_lines_preserve_br
    tdText,    \* SpecText: result of extract_text_preserve_br
    lines,     \* SpecDrop: the argument of drop_meaningless_first_line
    dropped,   \* SpecDrop: its result, and the result of a second application
    xtree,     \* SpecXPath: the tree handed to extract_by_xpath
    xpath,     \* SpecXPath: the selection expression handed to it
    xres,      \* SpecXPath: the nodes it returned and the expressions it evaluated
    doc,       \* SpecTable: the document
    h3,        \* SpecTable: the anchor heading, a node of doc
    tres,      \* SpecTable: result of find_table_after_h3
    pc,        \* Spec: where the request handler stands
    req,       \* Spec: the query parameters of the request
    fetches,   \* Spec: how many upstream fetches the request has made
    upstream,  \* Spec: how the upstream fetch ended
    page,      \* Spec: the page the upstream served
    parsed,    \* Spec: what parse_page_a / parse_page_b returned
    resp       \* Spec: the response

textVars == <<td, tdLines, tdText>>
dropVars == <<lines, dropped>>
xpVars == <<xtree, xpath, xres>>
tblVars == <<doc, h3, tres>>
reqVars == <<pc, req, fetches, upstream, page, parsed, resp>>
vars == <<textVars, dropVars, xpVars, tblVars, reqVars>>

-----------------------------------------------------------------------------
(* Bounds of the model.                                                    *)

MaxChildren == 2
MaxRest == 2
MaxRows == 2
MaxBlocks == 2
MaxRowsA == 3
MaxRowsB == 3

-----------------------------------------------------------------------------
(* Python string primitives.                                               *)

\* str.strip() and the regular expression class \s: Unicode whitespace.
Whitespace == {" ", "\t", "\n", "nbsp"}

\* The class \d.
Digits == {"0", "1", "2", "4"}

RECURSIVE LStrip(_)
LStrip(s) ==
    IF s # <<>> /\ Head(s) \in Whitespace THEN LStrip(Tail(s)) ELSE s

RECURSIVE RStrip(_)
RStrip(s) ==
    IF s # <<>> /\ s[Len(s)] \in Whitespace
    THEN RStrip(SubSeq(s, 1, Len(s) - 1))
    ELSE s

\* str.strip()
Strip(s) == RStrip(LStrip(s))

\* str.replace("\xa0", " ")
ReplaceNbsp(s) == [i \in 1..Len(s) |-> IF s[i] = "nbsp" THEN " " ELSE s[i]]

\* str.split("\n"): every segment, the empty ones included.
RECURSIVE SplitLines(_)
SplitLines(s) ==
    IF \A i \in 1..Len(s) : s[i] # "\n"
    THEN <<s>>
    ELSE LET i == CHOOSE k \in 1..Len(s) :
                      s[k] = "\n" /\ \A j \in 1..(k - 1) : s[j] # "\n"
         IN  <<SubSeq(s, 1, i - 1)>> \o SplitLines(SubSeq(s, i + 1, Len(s)))

\* [f(x) for x in seq]
StripEach(seq) == [i \in 1..Len(seq) |-> Strip(seq[i])]

NonEmpty(s) == s # <<>>

-----------------------------------------------------------------------------
(* Elements.  An element has a tag, its own text, the tail text after it,  *)
(* and its child elements in document order.                               *)

Node(tag, id, class, text, kids, tail) ==
    [tag |-> tag, id |-> id, class |-> class, text |-> text, kids |-> kids,
     tail |-> tail]

\* An element without attributes.
Elem(tag, text, kids, tail) == Node(tag, "", <<>>, text, kids, tail)

\* An element without attributes and without text.
Box(tag, kids) == Node(tag, "", <<>>, <<>>, kids, <<>>)

RECURSIVE Flatten(_)
Flatten(seqs) == IF seqs = <<>> THEN <<>> ELSE Head(seqs) \o Flatten(Tail(seqs))

\* A node of a tree is named by its path: the child indices from the root.
RECURSIVE NodeAt(_, _)
NodeAt(t, p) == IF p = <<>> THEN t ELSE NodeAt(t.kids[Head(p)], Tail(p))

\* The nodes of the sub-tree at p in document order, p first.
RECURSIVE Preorder(_, _)
Preorder(t, p) ==
    <<p>> \o Flatten([i \in 1..Len(t.kids) |-> Preorder(t.kids[i], Append(p, i))])

SeqsUpTo(S, n) == UNION { [1..k -> S] : k \in 0..n }

\* child.tag.lower(): the tags of the model are lower case already.
IsBr(child) == child.tag = "br"

\* A plausible slip: the child's tail text is not appended.
ChildPartsNoTail(child) ==
    (IF IsBr(child) THEN <<"\n">> ELSE <<>>) \o child.text

\* The body of the loop "for child in td" of both assemblers: what one
\* child appends to parts.
ChildParts(child) ==
    (IF IsBr(child) THEN <<"\n">> ELSE <<>>) \o child.text \o child.tail

\* "".join(parts) for the parts of the children from the k-th on.
RECURSIVE JoinChildren(_, _)
JoinChildren(kids, k) ==
    IF k > Len(kids) THEN <<>>
    ELSE ChildParts(kids[k]) \o JoinChildren(kids, k + 1)

\* "".join(parts): the element's own text, then the children.
JoinedParts(el) == el.text \o JoinChildren(el.kids, 1)

\* A plausible slip: the segments are trimmed but the empty ones are kept.
extract_td_lines_keep_blank(el) ==
    StripEach(SplitLines(ReplaceNbsp(JoinedParts(el))))

extract_td_lines_preserve_br(el) ==
    LET text == ReplaceNbsp(JoinedParts(el))
    IN  SelectSeq(StripEach(SplitLines(text)), NonEmpty)

extract_text_preserve_br(node) == Strip(ReplaceNbsp(JoinedParts(node)))

-----------------------------------------------------------------------------
(* The line post-processor.                                                *)

\* A plausible slip in the pattern: a hyphen accepted as the range separator.
TIME_RANGE_RE_hyphen ==
    LET w == [class |-> Whitespace, lo |-> 0, hi |-> 0, star |-> TRUE]
        c(cl, lo, hi) == [class |-> cl, lo |-> lo, hi |-> hi, star |-> FALSE]
    IN  << w, c({"[", "("}, 0, 1), w,
           c(Digits, 1, 2), w, c({":"}, 1, 1), w, c(Digits, 2, 2),
           w, c({"~", "-"}, 1, 1), w,
           c(Digits, 1, 2), w, c({":"}, 1, 1), w, c(Digits, 2, 2),
           w, c({"]", ")"}, 0, 1), w >>

\* _TIME_RANGE_RE: the pattern as the sequence of its items, each a
\* character class repeated between lo and hi times (re.VERBOSE drops the
\* pattern's own white space).  \s* is bounded by the length of the line.
Item(class, lo, hi) == [class |-> class, lo |-> lo, hi |-> hi, star |-> FALSE]
Star(class) == [class |-> class, lo |-> 0, hi |-> 0, star |-> TRUE]
Ws == Star(Whitespace)

TIME_RANGE_RE ==
    << Ws, Item({"[", "("}, 0, 1), Ws,
       Item(Digits, 1, 2), Ws, Item({":"}, 1, 1), Ws, Item(Digits, 2, 2),
       Ws, Item({"~"}, 1, 1), Ws,
       Item(Digits, 1, 2), Ws, Item({":"}, 1, 1), Ws, Item(Digits, 2, 2),
       Ws, Item({"]", ")"}, 0, 1), Ws >>

\* Pattern.match(s): the items from the k-th on match s from position i to
\* the end of s ($ also matches before one final newline).
RECURSIVE MatchFrom(_, _, _, _)
MatchFrom(re, s, i, k) ==
    IF k > Len(re)
    THEN i = Len(s) + 1 \/ (i = Len(s) /\ s[i] = "\n")
    ELSE \E n \in re[k].lo .. (IF ~re[k].star /\ re[k].hi < Len(s) - i + 1
                                THEN re[k].hi ELSE Len(s) - i + 1) :
            /\ \A j \in i .. (i + n - 1) : s[j] \in re[k].class
            /\ MatchFrom(re, s, i + n, k + 1)

ReMatch(re, s) == MatchFrom(re, s, 1, 1)

\* A plausible slip: every leading time-range line is removed, not one.
RECURSIVE drop_all_leading_time_lines(_)
drop_all_leading_time_lines(ls) ==
    IF ls = <<>> THEN ls
    ELSE IF ReMatch(TIME_RANGE_RE, ls[1])
    THEN drop_all_leading_time_lines(Tail(ls))
    ELSE ls

drop_meaningless_first_line(ls) ==
    IF ls = <<>> THEN ls
    ELSE IF ReMatch(TIME_RANGE_RE, ls[1]) THEN Tail(ls)
    ELSE ls

-----------------------------------------------------------------------------
(* The node locator.  A selection expression is text: the symbol "/" and   *)
(* the step symbols between the slashes.                                   *)

\* What a step symbol selects: elements of a tag ("*": any), with an id
\* ("": any), at a position among the selected children (0: any).
Step(name, id, pos) == [name |-> name, id |-> id, pos |-> pos]

StepOf(sym) ==
    CASE sym = "*[@id=contents]" -> Step("*", "contents", 0)
      [] sym = "div[2]" -> Step("div", "", 2)
      [] sym = "tr[1]" -> Step("tr", "", 1)
      [] sym = "tr[2]" -> Step("tr", "", 2)
      [] sym = "tr[3]" -> Step("tr", "", 3)
      [] OTHER -> Step(sym, "", 0)

Matches(node, st) ==
    /\ st.name = "*" \/ node.tag = st.name
    /\ st.id = "" \/ node.id = st.id

\* child::step from the node at p: the children that pass the name and id
\* tests, and of those the one at the position when the step names one.
ChildStep(t, p, st) ==
    LET kids == NodeAt(t, p).kids
        hits == SelectSeq([i \in 1..Len(kids) |-> i],
                          LAMBDA i : Matches(kids[i], st))
    IN  IF st.pos = 0 THEN { Append(p, hits[k]) : k \in 1..Len(hits) }
        ELSE IF st.pos <= Len(hits) THEN { Append(p, hits[st.pos]) }
        ELSE {}

\* The steps of a path "/a/b/c" applied to a set of context nodes.
RECURSIVE ChildSteps(_, _, _, _)
ChildSteps(t, ctx, x, i) ==
    IF i > Len(x) THEN ctx
    ELSE ChildSteps(t, UNION { ChildStep(t, p, StepOf(x[i + 1])) : p \in ctx },
                    x, i + 2)

\* tree.xpath(x) for an absolute path "//a/b/c": every element matching a,
\* wherever it lies, then the child steps; the result in document order.
XPath(t, x) ==
    LET all == Preorder(t, <<>>)
        first == { all[k] : k \in { j \in 1..Len(all) :
                                       Matches(NodeAt(t, all[j]), StepOf(x[3])) } }
        hits == ChildSteps(t, first, x, 4)
    IN  SelectSeq(all, LAMBDA p : p \in hits)

\* A plausible slip: only the first "/tbody" is removed.
xpath_without_first_tbody(x) ==
    IF \E i \in 1..(Len(x) - 1) : x[i] = "/" /\ x[i + 1] = "tbody"
    THEN LET i == CHOOSE k \in 1..(Len(x) - 1) :
                      /\ x[k] = "/" /\ x[k + 1] = "tbody"
                      /\ \A j \in 1..(k - 1) : ~(x[j] = "/" /\ x[j + 1] = "tbody")
         IN  SubSeq(x, 1, i - 1) \o SubSeq(x, i + 2, Len(x))
    ELSE x

\* xpath.replace("/tbody", "")
RECURSIVE xpath_without_tbody(_)
xpath_without_tbody(x) ==
    IF x = <<>> THEN x
    ELSE IF Len(x) >= 2 /\ x[1] = "/" /\ x[2] = "tbody"
    THEN xpath_without_tbody(SubSeq(x, 3, Len(x)))
    ELSE <<x[1]>> \o xpath_without_tbody(Tail(x))

\* A plausible slip: the relaxed expression is not tried.
extract_by_xpath_primary_only(t, x) ==
    [nodes |-> XPath(t, x), evaluated |-> <<x>>]

\* extract_by_xpath, with the expressions it evaluated, in order.
extract_by_xpath_run(t, x) ==
    LET nodes == XPath(t, x)
    IN  IF nodes = <<>>
        THEN [nodes |-> XPath(t, xpath_without_tbody(x)),
              evaluated |-> <<x, xpath_without_tbody(x)>>]
        ELSE [nodes |-> nodes, evaluated |-> <<x>>]

extract_by_xpath(t, x) == extract_by_xpath_run(t, x).nodes

-----------------------------------------------------------------------------
(* The section resolver.                                                   *)

\* XPath contains(text, word) on text written in symbols.
Contains(text, word) == \E i \in 1..Len(text) : text[i] = word

Front(p) == SubSeq(p, 1, Len(p) - 1)

\* The axis following:: from the node at p, in document order: the later
\* siblings of p and of each of its ancestors, each with its sub-tree.
RECURSIVE Following(_, _)
Following(t, p) ==
    IF p = <<>> THEN <<>>
    ELSE LET up == Front(p)
             sibs == NodeAt(t, up).kids
             i == p[Len(p)]
         IN  Flatten([j \in 1..(Len(sibs) - i) |->
                          Preorder(sibs[i + j], Append(up, i + j))])
             \o Following(t, up)

\* A plausible slip: the nearest table is taken whatever its class.
find_nearest_table_after_h3(t, h) ==
    LET tables == SelectSeq(Following(t, h), LAMBDA p : NodeAt(t, p).tag = "table")
    IN  IF tables # <<>> THEN [found |-> TRUE, path |-> tables[1]]
        ELSE [found |-> FALSE, path |-> <<>>]

\* find_table_after_h3: found is FALSE where the source returns None.
find_table_after_h3(t, h) ==
    LET marked == SelectSeq(Following(t, h),
                      LAMBDA p : /\ NodeAt(t, p).tag = "table"
                                 /\ Contains(NodeAt(t, p).class, "tbl_4"))
        tables == IF marked # <<>> THEN <<marked[1]>>
                  ELSE LET any == SelectSeq(Following(t, h),
                                      LAMBDA p : NodeAt(t, p).tag = "table")
                       IN  IF any # <<>> THEN <<any[1]>> ELSE <<>>
    IN  IF tables # <<>> THEN [found |-> TRUE, path |-> tables[1]]
        ELSE [found |-> FALSE, path |-> <<>>]

-----------------------------------------------------------------------------
(* The schedule builders.  A mapping from meal names to line lists is a    *)
(* function; a meal name is text, like every string of the model.          *)

EmptyMap == [k \in {} |-> <<>>]

\* dict.get(key, [])
Get(map, key) == IF key \in DOMAIN map THEN map[key] ELSE <<>>

Ran(seq) == { seq[i] : i \in 1..Len(seq) }

MealXPathA(row) ==
    <<"/", "/", "*[@id=contents]", "/", "div", "/", "div[2]", "/", "table",
      "/", "tbody", "/", row, "/", "td">>

MEAL_XPATHS_A ==
    << [name |-> <<"josik">>, xp |-> MealXPathA("tr[1]")],
       [name |-> <<"jungsik">>, xp |-> MealXPathA("tr[2]")],
       [name |-> <<"seoksik">>, xp |-> MealXPathA("tr[3]")] >>

\* The loop of parse_page_a from the k-th configured slot on.
RECURSIVE ParseSlotsA(_, _, _)
ParseSlotsA(tree, k, result) ==
    IF k > Len(MEAL_XPATHS_A) THEN result
    ELSE LET tds == extract_by_xpath(tree, MEAL_XPATHS_A[k].xp)
             meal_items == Flatten([i \in 1..Len(tds) |->
                               extract_td_lines_preserve_br(NodeAt(tree, tds[i]))])
         IN  ParseSlotsA(tree, k + 1, (MEAL_XPATHS_A[k].name :> meal_items) @@ result)

\* parse_page_a once the page is fetched: html.fromstring raises on a
\* document without content; otherwise one entry per configured slot.
parse_page_a(pg) ==
    IF pg.empty THEN [exc |-> "ParserError", meals |-> EmptyMap]
    ELSE [exc |-> "", meals |-> ParseSlotsA(pg.root, 1, EmptyMap)]

DAY_TO_DIV_ID ==
    (<<"m", "o", "n">> :> "mon_list") @@ (<<"t", "u", "e">> :> "tue_list")
    @@ (<<"w", "e", "d">> :> "wed_list") @@ (<<"t", "h", "u">> :> "thu_list")
    @@ (<<"f", "r", "i">> :> "fri_list") @@ (<<"s", "a", "t">> :> "sat_list")
    @@ (<<"s", "u", "n">> :> "sun_list")

B_MEAL_KEYS == << <<"achim">>, <<"jeomsim">>, <<"jeonyeok">> >>

\* re.sub(r"\s+", " ", s).strip()
RECURSIVE CollapseSpace(_)
CollapseSpace(s) ==
    IF s = <<>> THEN s
    ELSE IF Head(s) \in Whitespace
    THEN <<" ">> \o CollapseSpace(LStrip(s))
    ELSE <<Head(s)>> \o CollapseSpace(Tail(s))

normalize_space(s) == Strip(CollapseSpace(s))

\* All the text inside an element in document order (lxml's text_content()).
RECURSIVE text_content(_)
text_content(el) ==
    LET RECURSIVE Below(_, _)
        Below(kids, k) ==
            IF k > Len(kids) THEN <<>>
            ELSE text_content(kids[k]) \o kids[k].tail \o Below(kids, k + 1)
    IN  el.text \o Below(el.kids, 1)

\* node.xpath("./tag"): the children with the tag.
ChildrenTagged(t, p, tag) ==
    SelectSeq([i \in 1..Len(NodeAt(t, p).kids) |-> Append(p, i)],
              LAMBDA q : NodeAt(t, q).tag = tag)

\* node.xpath(".//tag"): the descendants with the tag, in document order.
DescendantsTagged(t, p, tag) ==
    SelectSeq(Tail(Preorder(NodeAt(t, p), p)), LAMBDA q : NodeAt(t, q).tag = tag)

\* The lines of one content cell, first line dropped when it means nothing.
CellLines(cell) ==
    drop_meaningless_first_line(
        SelectSeq(StripEach(SplitLines(extract_text_preserve_br(cell))), NonEmpty))

\* A plausible slip: the row is stored whatever its label.
StoreRowAnyLabel(t, out, tr) ==
    LET ths == ChildrenTagged(t, tr, "th")
        tds == ChildrenTagged(t, tr, "td")
    IN  IF ths = <<>> \/ tds = <<>> THEN out
        ELSE (normalize_space(text_content(NodeAt(t, ths[1])))
                 :> CellLines(NodeAt(t, tds[1]))) @@ out

\* The body of the loop "for tr in rows" of parse_page_b.
StoreRow(t, out, tr) ==
    LET ths == ChildrenTagged(t, tr, "th")
        tds == ChildrenTagged(t, tr, "td")
        key == normalize_space(text_content(NodeAt(t, ths[1])))
    IN  IF ths = <<>> \/ tds = <<>> THEN out
        ELSE IF key \notin DOMAIN out THEN out
        ELSE (key :> CellLines(NodeAt(t, tds[1]))) @@ out

RECURSIVE StoreRows(_, _, _, _)
StoreRows(t, out, rows, k) ==
    IF k > Len(rows) THEN out
    ELSE StoreRows(t, StoreRow(t, out, rows[k]), rows, k + 1)

IsStaffHeading(node) ==
    /\ node.tag = "h3"
    /\ Contains(normalize_space(text_content(node)), "gyojigwon")
    /\ Contains(normalize_space(text_content(node)), "sikdang")

\* parse_page_b once the page is fetched.  The date read from the heading
\* is not part of the model.
parse_page_b(pg, day) ==
    IF day \notin DOMAIN DAY_TO_DIV_ID THEN [exc |-> "ValueError", meals |-> EmptyMap]
    ELSE IF pg.empty THEN [exc |-> "ParserError", meals |-> EmptyMap]
    ELSE
    LET tree == pg.root
        day_divs == SelectSeq(Preorder(tree, <<>>),
                        LAMBDA q : /\ NodeAt(tree, q).tag = "div"
                                   /\ NodeAt(tree, q).id = DAY_TO_DIV_ID[day])
        h3_nodes == SelectSeq(Tail(Preorder(NodeAt(tree, day_divs[1]), day_divs[1])),
                        LAMBDA q : IsStaffHeading(NodeAt(tree, q)))
        table == find_table_after_h3(tree, h3_nodes[1])
        out == [k \in Ran(B_MEAL_KEYS) |-> <<>>]
    IN  IF day_divs = <<>> THEN [exc |-> "RuntimeError", meals |-> EmptyMap]
        ELSE IF h3_nodes = <<>> THEN [exc |-> "RuntimeError", meals |-> EmptyMap]
        ELSE IF ~table.found THEN [exc |-> "RuntimeError", meals |-> EmptyMap]
        ELSE [exc |-> "",
              meals |-> StoreRows(tree, out, DescendantsTagged(tree, table.path, "tr"), 1)]

-----------------------------------------------------------------------------
(* The two query endpoints.                                                *)

\* How a fetch can end, and what fetch_html_text raises then.
Outcomes == {"ok", "connection_error", "connect_timeout", "read_timeout", "http_status"}

ExceptionOf(outcome) ==
    CASE outcome = "connection_error" -> "ConnectionError"
      [] outcome = "connect_timeout" -> "ConnectTimeout"
      [] outcome = "read_timeout" -> "ReadTimeout"
      [] outcome = "http_status" -> "HTTPError"
      [] OTHER -> ""

\* The subclasses of requests.RequestException that can be raised.
RequestExceptions == {"HTTPError", "ConnectionError", "ConnectTimeout", "ReadTimeout"}

\* A plausible slip: only an HTTP status error is taken for an upstream one.
StatusOfHttpErrorOnly(exc) == IF exc = "HTTPError" THEN 502 ELSE 500

\* The except clauses of both handlers.
StatusOf(exc) ==
    IF exc = "HTTPError" THEN 502
    ELSE IF exc \in RequestExceptions THEN 502
    ELSE 500

IsLeap(y) == (y % 4 = 0 /\ y % 100 # 0) \/ y % 400 = 0

DaysIn(y, m) ==
    IF m = 2 THEN (IF IsLeap(y) THEN 29 ELSE 28)
    ELSE IF m \in {4, 6, 9, 11} THEN 30 ELSE 31

\* date(y, m, d) does not raise ValueError.
DateOk(y, m, d) == y \in 1..9999 /\ m \in 1..12 /\ d \in 1..DaysIn(y, m)

\* str.lower() on the letters the requests of the model use.
LowerSym(c) ==
    CASE c = "M" -> "m" [] c = "O" -> "o" [] c = "N" -> "n" [] OTHER -> c

Lower(s) == [i \in 1..Len(s) |-> LowerSym(s[i])]

NoResp == [status |-> 0, date |-> <<>>, meal |-> <<>>, items |-> <<>>,
           meals |-> EmptyMap, note |-> FALSE]

\* raise HTTPException(status_code=status)
Error(status) == [NoResp EXCEPT !.status = status]

\* A plausible slip: the note is added when some slot is empty.
NoteWhenAnyEmpty(meals) == \E k \in DOMAIN meals : meals[k] = <<>>

\* not any(payload["meals"].values())
NoteNeeded(meals) == ~ \E k \in DOMAIN meals : meals[k] # <<>>

NoReq == [endpoint |-> "", y |-> 0, m |-> 0, d |-> 0,
          meal |-> [given |-> FALSE, val |-> <<>>], day |-> <<>>]
NoPage == [empty |-> TRUE, root |-> Box("html", <<>>)]
NoParse == [done |-> FALSE, exc |-> "", meals |-> EmptyMap]

-----------------------------------------------------------------------------
(* SpecText: the two text assemblers applied to one element.               *)

Result(done, val) == [done |-> done, val |-> val]
NoResult == Result(FALSE, <<>>)

TextChoices == { <<>>, <<"A">>, <<" ", "B", "\n", "C", "nbsp">> }

\* What a child may hold below itself: nothing, or one element with text.
GrandKids == { <<>>, <<Elem("b", <<"Z">>, <<>>, <<>>)>> }

Children ==
    { Elem("br", <<>>, <<>>, t) : t \in TextChoices }
    \cup { Elem("span", x[1], x[2], x[3]) :
              x \in TextChoices \X GrandKids \X TextChoices }

KidSeqs(n) == UNION { [1..k -> Children] : k \in 0..n }

Elements ==
    { Elem("td", x[1], x[2], <<>>) : x \in TextChoices \X KidSeqs(MaxChildren) }

\* The variables of the specifications that are not running.
TextIdle == td = Elem("td", <<>>, <<>>, <<>>) /\ tdLines = NoResult /\ tdText = NoResult
DropIdle == lines = <<>> /\ dropped = [n |-> 0, once |-> <<>>, twice |-> <<>>]
NoNodes == [done |-> FALSE, nodes |-> <<>>, evaluated |-> <<>>]
XPathIdle == xtree = Box("table", <<>>) /\ xpath = <<>> /\ xres = NoNodes
NoTable == [done |-> FALSE, found |-> FALSE, path |-> <<>>]
TableIdle == doc = Box("body", <<>>) /\ h3 = <<>> /\ tres = NoTable
RequestIdle ==
    /\ pc = "off" /\ req = NoReq /\ fetches = 0 /\ upstream = ""
    /\ page = NoPage /\ parsed = NoParse /\ resp = NoResp

InitText ==
    /\ td \in Elements
    /\ tdLines = NoResult
    /\ tdText = NoResult
    /\ DropIdle /\ XPathIdle /\ TableIdle /\ RequestIdle

ExtractTdLines ==
    /\ ~tdLines.done
    /\ tdLines' = Result(TRUE, extract_td_lines_preserve_br(td))
    /\ UNCHANGED <<td, tdText, dropVars, xpVars, tblVars, reqVars>>

ExtractText ==
    /\ ~tdText.done
    /\ tdText' = Result(TRUE, extract_text_preserve_br(td))
    /\ UNCHANGED <<td, tdLines, dropVars, xpVars, tblVars, reqVars>>

NextText == ExtractTdLines \/ ExtractText

SpecText == InitText /\ [][NextText]_vars

-----------------------------------------------------------------------------
(* SpecDrop: drop_meaningless_first_line applied once, then once more to   *)
(* its own result.                                                         *)

Prefixes == { <<>>, <<" ">>, <<"[">>, <<"(">>, <<" ", "[", " ">>, <<"[", "[">>, <<"x">> }

Cores ==
    { <<"1", ":", "0", "0", "~", "2", ":", "0", "0">>,
      <<"1", "1", ":", "0", "0", "~", "1", "4", ":", "0", "0">>,
      <<"1", ":", "0", "0", "-", "2", ":", "0", "0">>,
      <<"1", ":", "0", "~", "2", ":", "0", "0">>,
      <<"1", " ", ":", " ", "0", "0", " ", "~", "\t", "2", " ", ":", " ", "0", "0">>,
      <<"1", "1", "1", ":", "0", "0", "~", "2", ":", "0", "0">>,
      <<"1", ":", "0", "0", "~", "2", ":", "0", "0", "0">>,
      <<"1", ":", "0", " ", "0", "~", "2", ":", "0", "0">>,
      <<"1", " ", "1", ":", "0", "0", "~", "2", ":", "0", "0">>,
      <<"1", ":", "0", "0", "~">>,
      <<"bap">>,
      <<>> }

Suffixes == { <<>>, <<" ">>, <<"]">>, <<")">>, <<" ", "]", " ">>, <<"]", "]">>,
              <<" ", "x">>, <<"\n">> }

FirstLines == { x[1] \o x[2] \o x[3] : x \in Prefixes \X Cores \X Suffixes }

RestLines == { <<"1", ":", "0", "0", "~", "2", ":", "0", "0">>, <<"bap">> }

RestSeqs == UNION { [1..k -> RestLines] : k \in 0..MaxRest }

LineSeqs == { <<>> } \cup { <<x[1]>> \o x[2] : x \in FirstLines \X RestSeqs }

InitDrop ==
    /\ lines \in LineSeqs
    /\ dropped = [n |-> 0, once |-> <<>>, twice |-> <<>>]
    /\ TextIdle /\ XPathIdle /\ TableIdle /\ RequestIdle

DropOnce ==
    /\ dropped.n = 0
    /\ dropped' = [n |-> 1, once |-> drop_meaningless_first_line(lines), twice |-> <<>>]
    /\ UNCHANGED <<textVars, lines, xpVars, tblVars, reqVars>>

DropTwice ==
    /\ dropped.n = 1
    /\ dropped' = [dropped EXCEPT !.n = 2,
                                  !.twice = drop_meaningless_first_line(dropped.once)]
    /\ UNCHANGED <<textVars, lines, xpVars, tblVars, reqVars>>

NextDrop == DropOnce \/ DropTwice

SpecDrop == InitDrop /\ [][NextDrop]_vars

-----------------------------------------------------------------------------
(* SpecXPath: extract_by_xpath on a table with and without the tbody       *)
(* wrapper, for expressions of the shape of MEAL_XPATHS_A.                 *)

\* A row with one or two cells.
Rows == { Box("tr", <<Box("td", <<>>)>>),
          Box("tr", <<Box("td", <<>>), Box("td", <<>>)>>) }

\* A table: rows inside a tbody or not, then rows of the table itself.
Tables ==
    { Box("table", w \o r) :
        w \in { <<>> } \cup { <<Box("tbody", rs)>> : rs \in SeqsUpTo(Rows, MaxRows) },
        r \in SeqsUpTo(Rows, MaxRows) }

XPaths ==
    { <<"/", "/", "table">> \o w \o <<"/", r>> \o c :
        w \in { <<>>, <<"/", "tbody">>, <<"/", "tbody", "/", "tbody">> },
        r \in { "tr", "tr[1]", "tr[2]", "tr[3]" },
        c \in { <<>>, <<"/", "td">> } }

InitXPath ==
    /\ xtree \in Tables
    /\ xpath \in XPaths
    /\ xres = NoNodes
    /\ TextIdle /\ DropIdle /\ TableIdle /\ RequestIdle

LocateNodes ==
    /\ ~xres.done
    /\ xres' = [done |-> TRUE,
                nodes |-> extract_by_xpath_run(xtree, xpath).nodes,
                evaluated |-> extract_by_xpath_run(xtree, xpath).evaluated]
    /\ UNCHANGED <<xtree, xpath, textVars, dropVars, tblVars, reqVars>>

NextXPath == LocateNodes

SpecXPath == InitXPath /\ [][NextXPath]_vars

-----------------------------------------------------------------------------
(* SpecTable: find_table_after_h3 from every heading of a document.        *)

Classes == { <<>>, <<"tbl_4">>, <<"menu", " ", "tbl_4">>, <<"tbl_1">> }

Leaves ==
    { Box("h3", <<>>) }
    \cup { Node("table", "", c, <<>>, <<>>, <<>>) : c \in Classes \ { <<"menu", " ", "tbl_4">> } }

\* A block of the page: a heading, a table, a div around one or two of
\* them, or a layout table around a heading.
Blocks ==
    Leaves
    \cup { Box("div", <<a>>) : a \in Leaves }
    \cup { Box("div", <<a, b>>) : a \in Leaves, b \in Leaves }
    \cup { Node("table", "", c, <<>>, <<Box("tr", <<Box("td", <<Box("h3", <<>>)>>)>>)>>, <<>>) :
              c \in { <<>>, <<"menu", " ", "tbl_4">> } }

Documents == { Box("body", bs) : bs \in SeqsUpTo(Blocks, MaxBlocks) }

Headings(d) ==
    LET all == Preorder(d, <<>>)
    IN  { p \in { all[k] : k \in 1..Len(all) } : NodeAt(d, p).tag = "h3" }

InitTable ==
    /\ doc \in Documents
    /\ h3 \in Headings(doc)
    /\ tres = NoTable
    /\ TextIdle /\ DropIdle /\ XPathIdle /\ RequestIdle

FindTable ==
    /\ ~tres.done
    /\ tres' = [done |-> TRUE,
                found |-> find_table_after_h3(doc, h3).found,
                path |-> find_table_after_h3(doc, h3).path]
    /\ UNCHANGED <<doc, h3, textVars, dropVars, xpVars, reqVars>>

NextTable == FindTable

SpecTable == InitTable /\ [][NextTable]_vars

-----------------------------------------------------------------------------
(* Spec: one request to /meals-a or /meals-b, from its arrival to its      *)
(* response.                                                               *)

Years == {1999, 2024, 2025, 2101}
Months == {0, 2, 12, 13}
DaysOfMonth == {0, 29, 31, 32}

MealParams ==
    { [given |-> FALSE, val |-> <<>>],
      [given |-> TRUE, val |-> <<"jungsik">>],
      [given |-> TRUE, val |-> <<" ", "seoksik", " ">>],
      [given |-> TRUE, val |-> <<"gansik">>] }

DayParams ==
    { <<"m", "o", "n">>, <<" ", "M", "O", "N", " ">>, <<"t", "u", "e">>,
      <<"x", "y", "z">>, <<>> }

\* Content cells of the page of source A.
CellA == Elem("td", <<"bap">>, <<Elem("br", <<>>, <<>>, <<"guk", "\n">>)>>, <<>>)
CellA2 == Elem("td", <<" ", "kimchi">>, <<>>, <<>>)

RowsA ==
    { Box("tr", <<>>), Box("tr", <<CellA>>), Box("tr", <<Box("td", <<>>)>>),
      Box("tr", <<CellA, CellA2>>) }

\* The page of source A: the table under #contents/div/div[2], its rows in
\* a tbody or not; or a page whose second inner div is missing.
PageA(inner) ==
    [empty |-> FALSE,
     root |-> Box("html",
                 <<Node("div", "contents", <<>>, <<>>, <<Box("div", inner)>>, <<>>)>>)]

PagesA ==
    { PageA(<<Box("div", <<>>), Box("div", <<Box("table", rs)>>)>>) :
        rs \in SeqsUpTo(RowsA, MaxRowsA) }
    \cup { PageA(<<Box("div", <<>>), Box("div", <<Box("table", <<Box("tbody", rs)>>)>>)>>) :
             rs \in SeqsUpTo(RowsA, MaxRowsA) }
    \cup { PageA(<<Box("div", <<Box("table", <<Box("tr", <<CellA>>)>>)>>)>>) }
    \cup { NoPage }

\* Content cells of the page of source B.
TimeLine == <<"[", "1", "1", ":", "0", "0", "~", "1", "4", ":", "0", "0", "]">>
CellTimeOnly == Elem("td", <<"\n", " ">> \o TimeLine \o <<"\n">>, <<>>, <<>>)
CellTimeItem == Elem("td", TimeLine, <<Elem("br", <<>>, <<>>, <<"bap">>)>>, <<>>)
CellItem == Elem("td", <<"bap">>, <<Elem("br", <<>>, <<>>, <<"guk">>)>>, <<>>)
CellEmpty == Elem("td", <<>>, <<>>, <<>>)

Label(text) == Elem("th", text, <<>>, <<>>)

RowsB ==
    { Box("tr", <<Label(<<"achim">>), CellEmpty>>),
      Box("tr", <<Label(<<"achim">>), CellTimeItem>>),
      Box("tr", <<Label(<<"\n", " ", "jeomsim", " ">>), CellTimeOnly>>),
      Box("tr", <<Label(<<"jeomsim">>), CellItem>>),
      Box("tr", <<Label(<<"jeonyeok">>), CellEmpty>>),
      Box("tr", <<Label(<<"jeonyeok">>), CellTimeItem>>),
      Box("tr", <<Label(<<"gansik">>), CellItem>>),
      Box("tr", <<CellItem>>),
      Box("tr", <<Label(<<"achim">>)>>) }

StaffHeading ==
    Elem("h3", <<"gyojigwon">>, <<Elem("span", <<"sikdang">>, <<>>, <<>>)>>, <<>>)
OtherHeading == Elem("h3", <<"haksaeng", " ", "sikdang">>, <<>>, <<>>)

DayDiv(id, kids) == Node("div", id, <<>>, <<>>, kids, <<>>)
MenuTable(class, rows) == Node("table", "", class, <<>>, rows, <<>>)
PageB(divs) == [empty |-> FALSE, root |-> Box("body", divs)]

\* The page of source B: the staff table in Monday's div and an unmarked
\* table before it; the only table in Tuesday's div; no div for the day; no
\* staff heading; no table after the heading; an empty document.
PagesB ==
    { PageB(<<DayDiv("mon_list", <<StaffHeading, MenuTable(<<>>, <<>>),
                                   MenuTable(<<"tbl_4">>, rs)>>),
              DayDiv("tue_list", <<StaffHeading, MenuTable(<<"tbl_4">>, <<>>)>>)>>) :
        rs \in SeqsUpTo(RowsB, MaxRowsB) }
    \cup { PageB(<<DayDiv("mon_list", <<StaffHeading>>),
                   DayDiv("tue_list", <<StaffHeading, MenuTable(<<>>, rs)>>)>>) :
             rs \in SeqsUpTo(RowsB, MaxRowsB) }
    \cup { PageB(<<DayDiv("sun_list", <<StaffHeading, MenuTable(<<"tbl_4">>, <<>>)>>)>>),
           PageB(<<DayDiv("mon_list", <<OtherHeading, MenuTable(<<"tbl_4">>, <<>>)>>),
                   DayDiv("tue_list", <<MenuTable(<<"tbl_4">>, <<>>)>>)>>),
           PageB(<<DayDiv("tue_list", <<MenuTable(<<"tbl_4">>, <<>>), StaffHeading>>),
                   DayDiv("mon_list", <<MenuTable(<<"tbl_4">>, <<>>), StaffHeading>>)>>),
           NoPage }

Init ==
    /\ pc = "idle"
    /\ req = NoReq
    /\ fetches = 0
    /\ upstream = ""
    /\ page = NoPage
    /\ parsed = NoParse
    /\ resp = NoResp
    /\ TextIdle /\ DropIdle /\ XPathIdle /\ TableIdle

others == <<textVars, dropVars, xpVars, tblVars>>

\* GET /meals-a?y=..&m=..&d=..[&meal=..] arrives.
ReceiveA ==
    /\ pc = "idle"
    /\ \E y \in Years, m \in Months, d \in DaysOfMonth, meal \in MealParams :
          req' = [NoReq EXCEPT !.endpoint = "a", !.y = y, !.m = m, !.d = d,
                               !.meal = meal]
    /\ pc' = "a_validate"
    /\ UNCHANGED <<fetches, upstream, page, parsed, resp, others>>

\* The Query(ge=, le=) bounds, checked before the handler runs (422), then
\* the calendar check of the handler (400).
ValidateA ==
    /\ pc = "a_validate"
    /\ IF ~(/\ req.y >= 2000 /\ req.y <= 2100
            /\ req.m >= 1 /\ req.m <= 12
            /\ req.d >= 1 /\ req.d <= 31)
       THEN resp' = Error(422) /\ pc' = "done"
       ELSE IF ~DateOk(req.y, req.m, req.d)
       THEN resp' = Error(400) /\ pc' = "done"
       ELSE resp' = resp /\ pc' = "a_fetch"
    /\ UNCHANGED <<req, fetches, upstream, page, parsed, others>>

\* fetch_html_text, called by parse_page_a and by parse_page_b: the request
\* goes out; it fails, and the handler answers for the exception, or it
\* brings a page.
Fetch(pages, next) ==
    /\ fetches' = fetches + 1
    /\ \E o \in Outcomes :
          /\ upstream' = o
          /\ IF o # "ok"
             THEN /\ resp' = Error(StatusOf(ExceptionOf(o)))
                  /\ pc' = "done"
                  /\ page' = page
             ELSE /\ \E pg \in pages : page' = pg
                  /\ pc' = next
                  /\ resp' = resp
    /\ UNCHANGED <<req, parsed, others>>

FetchA == pc = "a_fetch" /\ Fetch(PagesA, "a_parse")

\* The rest of parse_page_a, and the handler's answer when it raises.
ParseA ==
    /\ pc = "a_parse"
    /\ LET r == parse_page_a(page)
       IN  /\ parsed' = [done |-> TRUE, exc |-> r.exc, meals |-> r.meals]
           /\ IF r.exc # ""
              THEN resp' = Error(StatusOf(r.exc)) /\ pc' = "done"
              ELSE resp' = resp /\ pc' = "a_respond"
    /\ UNCHANGED <<req, fetches, upstream, page, others>>

MealNamesA == { <<"josik">>, <<"jungsik">>, <<"seoksik">> }

\* The end of get_meals_a: the meal filter and the payload.
RespondA ==
    /\ pc = "a_respond"
    /\ resp' =
          IF req.meal.given
          THEN IF Strip(req.meal.val) \notin MealNamesA
               THEN Error(400)
               ELSE [NoResp EXCEPT !.status = 200,
                                   !.date = <<req.y, req.m, req.d>>,
                                   !.meal = Strip(req.meal.val),
                                   !.items = Get(parsed.meals, Strip(req.meal.val))]
          ELSE [NoResp EXCEPT !.status = 200,
                              !.date = <<req.y, req.m, req.d>>,
                              !.meals = [k \in MealNamesA |-> Get(parsed.meals, k)]]
    /\ pc' = "done"
    /\ UNCHANGED <<req, fetches, upstream, page, parsed, others>>

\* GET /meals-b?day=.. arrives.
ReceiveB ==
    /\ pc = "idle"
    /\ \E day \in DayParams : req' = [NoReq EXCEPT !.endpoint = "b", !.day = day]
    /\ pc' = "b_validate"
    /\ UNCHANGED <<fetches, upstream, page, parsed, resp, others>>

\* day = day.strip().lower() and the check of the token.
ValidateB ==
    /\ pc = "b_validate"
    /\ req' = [req EXCEPT !.day = Lower(Strip(req.day))]
    /\ IF Lower(Strip(req.day)) \notin DOMAIN DAY_TO_DIV_ID
       THEN resp' = Error(400) /\ pc' = "done"
       ELSE resp' = resp /\ pc' = "b_fetch"
    /\ UNCHANGED <<fetches, upstream, page, parsed, others>>

FetchB == pc = "b_fetch" /\ Fetch(PagesB, "b_parse")

\* The rest of parse_page_b, and the handler's answer when it raises.
ParseB ==
    /\ pc = "b_parse"
    /\ LET r == parse_page_b(page, req.day)
       IN  /\ parsed' = [done |-> TRUE, exc |-> r.exc, meals |-> r.meals]
           /\ IF r.exc # ""
              THEN resp' = Error(StatusOf(r.exc)) /\ pc' = "done"
              ELSE resp' = resp /\ pc' = "b_respond"
    /\ UNCHANGED <<req, fetches, upstream, page, others>>

\* The end of get_meals_b: the payload and the note.
RespondB ==
    /\ pc = "b_respond"
    /\ LET meals == [k \in Ran(B_MEAL_KEYS) |-> Get(parsed.meals, k)]
       IN  resp' = [NoResp EXCEPT !.status = 200,
                                  !.meals = meals,
                                  !.note = NoteNeeded(meals)]
    /\ pc' = "done"
    /\ UNCHANGED <<req, fetches, upstream, page, parsed, others>>

Next ==
    \/ ReceiveA \/ ValidateA \/ FetchA \/ ParseA \/ RespondA
    \/ ReceiveB \/ ValidateB \/ FetchB \/ ParseB \/ RespondB

Spec == Init /\ [][Next]_vars

-----------------------------------------------------------------------------
(* Claims about the endpoints and the schedule builders (Spec).            *)

\* p comes before q in document order and q is not inside p: the paths
\* part at some index, p turning to an earlier child than q.
Precedes(p, q) ==
    \E i \in 1..Len(p) :
        /\ i <= Len(q)
        /\ SubSeq(p, 1, i - 1) = SubSeq(q, 1, i - 1)
        /\ p[i] < q[i]

IsPrefix(p, q) == Len(p) <= Len(q) /\ SubSeq(q, 1, Len(p)) = p

NodesOf(t) == LET all == Preorder(t, <<>>) IN { all[k] : k \in 1..Len(all) }

\* The tables after the heading in document order: those that start after
\* the heading has ended.
TablesAfter(d, h) ==
    { q \in NodesOf(d) : NodeAt(d, q).tag = "table" /\ Precedes(h, q) }

WeekdayTokens ==
    { <<"m", "o", "n">>, <<"t", "u", "e">>, <<"w", "e", "d">>, <<"t", "h", "u">>,
      <<"f", "r", "i">>, <<"s", "a", "t">>, <<"s", "u", "n">> }

\* The request's input is invalid in one of the listed ways.  A weekday
\* token is judged as the handler reads it: trimmed and in lower case.
InvalidInput(r) ==
    \/ /\ r.endpoint = "a"
       /\ \/ r.y \notin 2000..2100 \/ r.m \notin 1..12 \/ r.d \notin 1..31
          \/ r.d > DaysIn(r.y, r.m)
          \/ r.meal.given /\ Strip(r.meal.val) \notin { <<"josik">>, <<"jungsik">>, <<"seoksik">> }
    \/ /\ r.endpoint = "b"
       /\ Lower(Strip(r.day)) \notin WeekdayTokens

PassesValidation(r) == r.endpoint \in {"a", "b"} /\ ~InvalidInput(r)

\* C1: a request with invalid input makes no upstream fetch and is answered
\* with a client error.
C1_AsStated ==
    InvalidInput(req) =>
        /\ fetches = 0
        /\ pc = "done" => resp.status \in {400, 422}

\* The section of the requested weekday, a staff heading inside it, and a
\* table after that heading.
SectionId(day) ==
    CASE day = <<"m", "o", "n">> -> "mon_list"
      [] day = <<"t", "u", "e">> -> "tue_list"
      [] OTHER -> "none"

IsStaffHeadingText(text) ==
    /\ \E w \in 1..Len(text) : text[w] = "gyojigwon"
    /\ \E w \in 1..Len(text) : text[w] = "sikdang"

ShapeFound(pg, day) ==
    /\ ~pg.empty
    /\ LET nodes == NodesOf(pg.root)
           sections == { q \in nodes : /\ NodeAt(pg.root, q).tag = "div"
                                       /\ NodeAt(pg.root, q).id = SectionId(day) }
           headings == { h \in nodes :
                           /\ NodeAt(pg.root, h).tag = "h3"
                           /\ \E q \in sections : IsPrefix(q, h) /\ q # h
                           /\ IsStaffHeadingText(text_content(NodeAt(pg.root, h))) }
           tables == { t \in nodes : NodeAt(pg.root, t).tag = "table" }
       IN  \E h \in headings : \E t \in tables : Precedes(h, t)

ExtractionFails(r, pg) ==
    IF r.endpoint = "a" THEN pg.empty ELSE ~ShapeFound(pg, Lower(Strip(r.day)))

\* C2: for a request that passes validation, a failed fetch is answered 502
\* and a failed extraction after a successful fetch is answered 500.
C2_Status ==
    (pc = "done" /\ PassesValidation(req)) =>
        /\ upstream # "ok" => resp.status = 502
        /\ (upstream = "ok" /\ ExtractionFails(req, page)) => resp.status = 500

\* A read timeout on /meals-b, answered 502.
C2_Witness ==
    /\ pc = "done"
    /\ req.endpoint = "b" /\ PassesValidation(req)
    /\ upstream = "read_timeout"
    /\ resp.status = 502

\* C3: the mapping parse_page_a or parse_page_b returns has exactly the
\* three meal names of its source as keys.
C3_Keys ==
    (parsed.done /\ parsed.exc = "") =>
        DOMAIN parsed.meals =
            IF req.endpoint = "a"
            THEN { <<"josik">>, <<"jungsik">>, <<"seoksik">> }
            ELSE { <<"achim">>, <<"jeomsim">>, <<"jeonyeok">> }

\* Monday's table holds a row with an unknown label, a row without a label
\* cell and two rows for the same slot.
C3_Witness ==
    /\ parsed.done /\ parsed.exc = ""
    /\ req.endpoint = "b" /\ req.day = <<"m", "o", "n">>
    /\ ~page.empty
    /\ Len(page.root.kids[1].kids) = 3
    /\ LET rows == page.root.kids[1].kids[3].kids
       IN  /\ Len(rows) = 3
           /\ \E i \in 1..3 : rows[i].kids[1].text = <<"gansik">>
           /\ \E i \in 1..3 : Len(rows[i].kids) = 1
    /\ parsed.meals[<<"achim">>] = <<>>

\* C8: a /meals-b request with a valid token, a successful fetch and a page
\* on which section, heading and table are found is answered 200, with the
\* note exactly when the three line lists of the answer are all empty.
C8_Note ==
    (/\ pc = "done" /\ req.endpoint = "b" /\ PassesValidation(req)
     /\ upstream = "ok" /\ ShapeFound(page, req.day)) =>
        /\ resp.status = 200
        /\ DOMAIN resp.meals = { <<"achim">>, <<"jeomsim">>, <<"jeonyeok">> }
        /\ resp.meals = parsed.meals
        /\ resp.note <=> (\A k \in DOMAIN resp.meals : resp.meals[k] = <<>>)

\* All three rows are there; two cells are empty and one holds the time
\* range alone: every list is empty and the note is set.
C8_Witness ==
    /\ pc = "done" /\ req.endpoint = "b" /\ req.day = <<"m", "o", "n">>
    /\ upstream = "ok" /\ ~page.empty
    /\ Len(page.root.kids[1].kids) = 3
    /\ LET rows == page.root.kids[1].kids[3].kids
       IN  /\ Len(rows) = 3
           /\ rows[1].kids[1].text = <<"achim">> /\ Len(rows[1].kids) = 2
           /\ rows[2].kids[1].text = <<"\n", " ", "jeomsim", " ">>
           /\ rows[3].kids[1].text = <<"jeonyeok">>
    /\ resp.status = 200 /\ resp.note

-----------------------------------------------------------------------------
(* Claims about the text assemblers (SpecText).                            *)

NonWs(s) == SelectSeq(s, LAMBDA c : c \notin Whitespace)

\* The element's content cut at its line-break children: the text before the
\* first one, between two of them, and after the last one.
RECURSIVE SegmentsFrom(_, _, _)
SegmentsFrom(kids, k, cur) ==
    IF k > Len(kids) THEN <<cur>>
    ELSE IF kids[k].tag = "br"
    THEN <<cur>> \o SegmentsFrom(kids, k + 1, kids[k].text \o kids[k].tail)
    ELSE SegmentsFrom(kids, k + 1, cur \o kids[k].text \o kids[k].tail)

BrSegments(el) == SegmentsFrom(el.kids, 1, el.text)

\* The same segments cut once more at the newline characters in the text.
NlSegments(el) ==
    Flatten([i \in 1..Len(BrSegments(el)) |-> SplitLines(BrSegments(el)[i])])

TrimmedNonEmpty(segs) ==
    SelectSeq([i \in 1..Len(segs) |-> Strip(ReplaceNbsp(segs[i]))], NonEmpty)

IsItemLine(l) ==
    /\ l # <<>>
    /\ l[1] \notin Whitespace
    /\ l[Len(l)] \notin Whitespace
    /\ \A i \in 1..Len(l) : l[i] # "\n"

\* C6 as stated: the lines of extract_td_lines_preserve_br are exactly the
\* trimmed non-empty segments between the element's line-break children.
C6_AsStated ==
    tdLines.done => tdLines.val = TrimmedNonEmpty(BrSegments(td))

\* C6 amended: the lines of extract_td_lines_preserve_br are, in document
\* order, exactly the trimmed non-empty segments obtained by cutting the
\* element's own text and its direct children's text and tails at the
\* line-break children and at the newline characters in that text; every
\* line is non-empty, has no white space at either end and no newline.
C6_Lines ==
    tdLines.done =>
        /\ tdLines.val = TrimmedNonEmpty(NlSegments(td))
        /\ \A i \in 1..Len(tdLines.val) : IsItemLine(tdLines.val[i])

\* "A<br><br>B" with a newline inside the text somewhere: two adjacent
\* line-break children, and at least three lines come out.
C6_Witness ==
    /\ tdLines.done
    /\ Len(td.kids) = 2
    /\ td.kids[1].tag = "br" /\ td.kids[2].tag = "br"
    /\ td.kids[1].tail = <<>>
    /\ td.text = <<"A">>
    /\ \E i \in 1..Len(td.kids[2].tail) : td.kids[2].tail[i] = "\n"
    /\ Len(tdLines.val) = 3

\* The text an element holds itself and in its direct children.
RECURSIVE KidsText(_, _)
KidsText(kids, k) ==
    IF k > Len(kids) THEN <<>>
    ELSE kids[k].text \o kids[k].tail \o KidsText(kids, k + 1)

OneLevelText(el) == el.text \o KidsText(el.kids, 1)

-----------------------------------------------------------------------------
(* Claims about the line post-processor (SpecDrop).                        *)

\* The time-range shape, stated on the symbols of the line: an optional
\* opening bracket, H:MM or HH:MM, "~", H:MM or HH:MM, an optional closing
\* bracket.
ClassOf(c) == IF c \in Digits THEN "d" ELSE c

Shapes ==
    { x[1] \o x[2] \o <<":", "d", "d", "~">> \o x[3] \o <<":", "d", "d">> \o x[4] :
        x \in { <<>>, <<"[">>, <<"(">> } \X { <<"d">>, <<"d", "d">> }
              \X { <<"d">>, <<"d", "d">> } \X { <<>>, <<"]">>, <<")">> } }

SplitNumber(s) ==
    \E i, j \in 1..Len(s) :
        /\ i + 1 < j
        /\ s[i] \in Digits /\ s[j] \in Digits
        /\ \A k \in (i + 1)..(j - 1) : s[k] \in Whitespace

\* The whole line has the shape, with white space around it only.
IsBareTimeRangeLine(s) ==
    [i \in 1..Len(Strip(s)) |-> ClassOf(Strip(s)[i])] \in Shapes

\* The whole line has the shape, with white space around it and around
\* every token of it, but not inside a number.
IsTimeRangeLine(s) ==
    /\ [i \in 1..Len(NonWs(s)) |-> ClassOf(NonWs(s)[i])] \in Shapes
    /\ ~SplitNumber(s)

BothLeadingTimeRanges(ls) ==
    Len(ls) >= 2 /\ IsTimeRangeLine(ls[1]) /\ IsTimeRangeLine(ls[2])

\* C4 as stated: drop_meaningless_first_line is idempotent.
C4_AsStated == dropped.n = 2 => dropped.twice = dropped.once

\* C4 amended: drop(drop(L)) = drop(L) unless the first two lines of L are
\* both whole-line time ranges; then one application removes the first line
\* only and the second application removes the second one.
C4_Idempotent ==
    dropped.n = 2 =>
        IF BothLeadingTimeRanges(lines)
        THEN /\ dropped.once = Tail(lines)
             /\ dropped.twice = Tail(Tail(lines))
        ELSE dropped.twice = dropped.once

\* Two leading time-range lines and an item after them, dropped twice.
C4_Witness ==
    /\ dropped.n = 2
    /\ Len(lines) = 3
    /\ BothLeadingTimeRanges(lines)
    /\ dropped.twice = <<lines[3]>>

\* C5 as stated: drop_meaningless_first_line returns L without its first
\* line if and only if L is non-empty and its whole first line is the
\* time-range shape with white space around it and nothing else; otherwise
\* it returns L itself.
C5_AsStated ==
    dropped.n >= 1 =>
        dropped.once = IF lines # <<>> /\ IsBareTimeRangeLine(lines[1])
                       THEN Tail(lines) ELSE lines

\* C5 amended: the same, the shape allowing white space between its tokens
\* as well (after the opening bracket, around the colons and the "~",
\* before the closing bracket).
C5_DropFirst ==
    dropped.n >= 1 =>
        dropped.once = IF lines # <<>> /\ IsTimeRangeLine(lines[1])
                       THEN Tail(lines) ELSE lines

\* A bracketed time range with white space around it is removed and the
\* two lines after it are kept as they are.
C5_Witness ==
    /\ dropped.n >= 1
    /\ Len(lines) = 3
    /\ lines[1] = <<" ", "[", " ", "1", "1", ":", "0", "0", "~", "1", "4", ":", "0", "0",
                    " ", "]", " ">>
    /\ dropped.once = <<lines[2], lines[3]>>

-----------------------------------------------------------------------------
(* Claims about the node locator (SpecXPath).                              *)

\* The steps of an expression "//a/b/c", one symbol per step.
StepsOf(x) == [k \in 1..((Len(x) - 1) \div 2) |-> x[2 * k + 1]]

\* The expression "//a/b/c" of a sequence of steps.
ExprOf(steps) ==
    <<"/">> \o Flatten([k \in 1..Len(steps) |-> <<"/", steps[k]>>])

\* The relaxed counterpart: the expression without its wrapper steps.
Relaxed(x) == ExprOf(SelectSeq(StepsOf(x), LAMBDA st : st # "tbody"))

HasWrapperStep(x) == \E k \in 1..Len(StepsOf(x)) : StepsOf(x)[k] = "tbody"

LacksWrapper(t) ==
    \A k \in 1..Len(Preorder(t, <<>>)) : NodeAt(t, Preorder(t, <<>>)[k]).tag # "tbody"

\* C9: extract_by_xpath returns the matches of the primary expression when
\* there are any and evaluates nothing else; otherwise it evaluates the
\* relaxed expression and returns its matches, the empty list when there
\* are none; on a tree without the wrapper, an expression with the wrapper
\* and its relaxed counterpart locate the same nodes.
C9_Locator ==
    xres.done =>
        /\ XPath(xtree, xpath) # <<>> =>
                xres.nodes = XPath(xtree, xpath) /\ xres.evaluated = <<xpath>>
        /\ XPath(xtree, xpath) = <<>> =>
                /\ xres.nodes = XPath(xtree, Relaxed(xpath))
                /\ xres.evaluated = <<xpath, Relaxed(xpath)>>
        /\ (HasWrapperStep(xpath) /\ LacksWrapper(xtree)) =>
                xres.nodes = extract_by_xpath(xtree, Relaxed(xpath))

\* A table without tbody, asked for //table/tbody/tbody/tr[2]/td: the second
\* row's cell is found through the relaxed expression.
C9_Witness ==
    /\ xres.done
    /\ xpath = <<"/", "/", "table", "/", "tbody", "/", "tbody", "/", "tr[2]", "/", "td">>
    /\ LacksWrapper(xtree)
    /\ xres.nodes = << <<2, 1>> >>
    /\ Len(xres.evaluated) = 2

-----------------------------------------------------------------------------
(* Claims about the section resolver (SpecTable).                          *)

FirstOf(S) == CHOOSE q \in S : \A r \in S : r = q \/ Precedes(q, r) \/ IsPrefix(q, r)

\* The table carries the marker class: its class attribute holds the marker.
CarriesMarker(node) == \E i \in 1..Len(node.class) : node.class[i] = "tbl_4"

====
